---------------------------- MODULE Spec2Model ----------------------------
(***************************************************************************)
(* Model of src/bandwidth.py: the BandwidthStateMachine (the hysteresis    *)
(* state machine over the BandwidthCategory ladder and its observers) and  *)
(* the BandwidthMonitor (the sliding window of byte samples, its lock and  *)
(* the threads that call it).                                              *)
(*                                                                         *)
(* A BandwidthCategory member is identified by its value: the metaclass    *)
(* collects the values in a set, so no two members share one.  Indices are *)
(* 0-based as in the source; categories is a TLA+ sequence, so the member  *)
(* at index i is categories[i + 1].                                        *)
(*                                                                         *)
(* Time is counted in ticks of 1/TicksPerSecond second; time.time() is     *)
(* taken to be non-decreasing.  Float rounding of the division in          *)
(* get_bandwidth is not modelled.                                          *)
(***************************************************************************)
EXTENDS Integers, Sequences, FiniteSets

VARIABLES
    \* BandwidthStateMachine
    categories,      \* list(BandwidthCategory): the ladder, ascending values
    current_state,   \* self.current_state (a member, by value)
    observers,       \* self.observers
    \* history of the most recent update_state call
    called,          \* whether update_state has been called at all
    last_bw,         \* its argument
    previous_state,  \* its local previous_state
    notified,        \* the observer invocations it made, in order
    idx_hist,        \* the indices seen since the argument last changed (last 3)
    nonpos_run,      \* the current run of calls with bandwidth <= 0
    scen,            \* how far the calls so far follow ScenarioInputs
    \* BandwidthMonitor
    window_size,     \* self.window_size, in seconds
    bytes_received,  \* self.bytes_received
    timestamps,      \* self.timestamps, in ticks
    lock,            \* self.lock: 0 when free, else the thread that acquired it
    \* the clock and the calling threads
    now,             \* time.time(), in ticks
    pc,              \* where each thread is
    received_bytes,  \* register_received_bytes' argument, per thread
    current_time,    \* register_received_bytes' local, per thread
    ret,             \* get_bandwidth's return value, per thread
    call_time,       \* the time at which get_bandwidth computed it, per thread
    reported,        \* every sample appended so far, <<timestamp, bytes>>
    \* threads inside BandwidthStateMachine.update_state
    upd,             \* per thread: where it is and its locals
    \* BandwidthCategoryMeta.__new__
    catalog,         \* the members of Resolution, each <<width, height>>
    built,           \* whether __new__ has run
    members,         \* the BANDWIDTH_<i> entries it added, each <<i, value>>
    \* BandwidthFormatter.format
    fmt_in,          \* its argument
    fmt_out,         \* what it returned
    \* Client (src/client.py and src/client/client.py)
    cl_variant,      \* which of the two Client classes this one is
    cl_running,      \* self._running
    cl_components,   \* the connection and pipeline components
    cl_pc,           \* where the thread calling run() is
    cl_stop_pc,      \* where the thread calling stop() is
    cl_quit,         \* a QUIT event waits in pygame's queue
    cl_hist          \* history: calls made, runs started, errors raised

sm_vars == <<categories, current_state, observers, called, last_bw,
             previous_state, notified, idx_hist, nonpos_run, scen>>
mon_vars == <<window_size, bytes_received, timestamps, lock, now, pc,
              received_bytes, current_time, ret, call_time, reported>>
upd_vars == <<upd>>
lad_vars == <<catalog, built, members>>
fmt_vars == <<fmt_in, fmt_out>>
cl_vars == <<cl_variant, cl_running, cl_components, cl_pc, cl_stop_pc,
             cl_quit, cl_hist>>
ext_vars == <<upd_vars, lad_vars, fmt_vars, cl_vars>>
not_upd == <<mon_vars, lad_vars, fmt_vars, cl_vars>>
not_cl == <<sm_vars, mon_vars, upd_vars, lad_vars, fmt_vars>>
vars == <<sm_vars, mon_vars, ext_vars>>

-----------------------------------------------------------------------------
(* Bounds *)

MaxVal == 4          \* ladder values are drawn from 1..MaxVal
MaxLadderLen == 3    \* ladders have 1..MaxLadderLen levels
NumCallbacks == 2    \* distinct observer callbacks
MaxObservers == 2    \* registrations

TicksPerSecond == 2  \* resolution of the clock
MaxWindow == 1       \* window_size is drawn from 1..MaxWindow seconds
MaxTime == 3         \* the clock stops at MaxTime ticks
MaxReports == 3      \* register_received_bytes calls
MaxBytes == 1        \* received_bytes is drawn from 0..MaxBytes
NumThreads == 2      \* threads calling the monitor
NumUpdaters == 2     \* threads calling update_state
MaxDim == 3          \* widths and heights are drawn from 1..MaxDim
MaxResolutions == 3  \* a catalog has at most MaxResolutions resolutions
MaxMantissa == 3     \* format's arguments reach MaxMantissa units
MaxRunCalls == 2     \* calls of Client.run
MaxStopCalls == 1    \* calls of Client.stop from another thread
MaxQuits == 1        \* QUIT events posted

Max(a, b) == IF a >= b THEN a ELSE b
Min(a, b) == IF a <= b THEN a ELSE b

RECURSIVE SumSeq(_)
SumSeq(s) == IF s = <<>> THEN 0 ELSE Head(s) + SumSeq(Tail(s))

Last(s) == s[Len(s)]

StrictlyAscending(s) == \A k \in 1..(Len(s) - 1) : s[k] < s[k + 1]

Ladders ==
    {l \in UNION {[1..n -> 1..MaxVal] : n \in 1..MaxLadderLen} :
        StrictlyAscending(l)}

BwVals == (-1)..(2 * MaxVal + 1)
Callbacks == 1..NumCallbacks

-----------------------------------------------------------------------------
(* BandwidthStateMachine *)

\* categories.index(state): the 0-based position of the first equal member
index(cats, state) ==
    (CHOOSE k \in 1..Len(cats) :
        cats[k] = state /\ \A j \in 1..(k - 1) : cats[j] # state) - 1

\* lower_index without max: Python's categories[-1] is the last member
lower_index_wrapping(cats, i) == IF i = 0 THEN Len(cats) - 1 ELSE i - 1

lower_index(cats, i) == Max(i - 1, 0)

upper_index(cats, i) == Min(i + 1, Len(cats) - 1)

\* transition, promoting as far as the bandwidth reaches instead of one level
transition_multi_level(cats, state, bandwidth) ==
    LET i == index(cats, state)
        reach == {k \in (i + 1)..(Len(cats) - 1) : bandwidth >= 2 * cats[k]}
    IN
    IF bandwidth < cats[i + 1]
    THEN cats[lower_index(cats, i) + 1]
    ELSE IF bandwidth >= 2 * cats[i + 1]
         THEN IF reach = {}
              THEN cats[upper_index(cats, i) + 1]
              ELSE cats[(CHOOSE k \in reach : \A j \in reach : j <= k) + 1]
         ELSE state

\* transition, promoting on > instead of >=
transition_strict_promote(cats, state, bandwidth) ==
    LET i == index(cats, state) IN
    IF bandwidth < cats[i + 1]
    THEN cats[lower_index(cats, i) + 1]
    ELSE IF bandwidth > 2 * cats[i + 1]
         THEN cats[upper_index(cats, i) + 1]
         ELSE state

\* transition, demoting on <= instead of <
transition_eager_demote(cats, state, bandwidth) ==
    LET i == index(cats, state) IN
    IF bandwidth <= cats[i + 1]
    THEN cats[lower_index(cats, i) + 1]
    ELSE IF bandwidth >= 2 * cats[i + 1]
         THEN cats[upper_index(cats, i) + 1]
         ELSE state

\* transition, leaving the state alone on a throughput <= 0
transition_ignore_nonpositive(cats, state, bandwidth) ==
    LET i == index(cats, state) IN
    IF bandwidth <= 0
    THEN state
    ELSE IF bandwidth < cats[i + 1]
         THEN cats[lower_index(cats, i) + 1]
         ELSE IF bandwidth >= 2 * cats[i + 1]
              THEN cats[upper_index(cats, i) + 1]
              ELSE state

\* the if/elif of update_state: the state after the call
transition(cats, state, bandwidth) ==
    LET i == index(cats, state) IN
    IF bandwidth < cats[i + 1]
    THEN cats[lower_index(cats, i) + 1]
    ELSE IF bandwidth >= 2 * cats[i + 1]
         THEN cats[upper_index(cats, i) + 1]
         ELSE state

\* state_changed, always notifying
state_changed_always(cur, prev) == TRUE

\* line 171: self.current_state != previous_state
state_changed(cur, prev) == cur # prev

\* notify_observers, walking the list from its end
notify_observers_reversed(obs, state) ==
    [k \in 1..Len(obs) |->
        [observer |-> obs[Len(obs) - k + 1], level |-> state]]

\* notify_observers: one invocation per registration, in order, each with
\* the current state
notify_observers(obs, state) ==
    [k \in 1..Len(obs) |-> [observer |-> obs[k], level |-> state]]

\* get_current_state
get_current_state == current_state

Push3(h, i) == IF Len(h) < 3 THEN Append(h, i) ELSE Append(Tail(h), i)

\* the scenario of the specification's testable properties
ScenarioLadder == <<100, 500, 2000>>
ScenarioInputs == <<50, 250, 50, 5000, 5000, 5000>>
ScenarioBwVals == {0, 50, 100, 199, 200, 250, 500, 999, 1000, 2000, 4000, 5000}

NoRun == [start |-> 0, len |-> 0]
ScenOff == [on |-> FALSE, step |-> 0, levels |-> <<>>]
ScenStart == [on |-> TRUE, step |-> 0, levels |-> <<>>]

\* the state after __init__, whatever the ladder
InitSMState ==
    /\ current_state = categories[1]
    /\ observers = <<>>
    /\ called = FALSE
    /\ last_bw = 0
    /\ previous_state = categories[1]
    /\ notified = <<>>
    /\ idx_hist = <<0>>
    /\ nonpos_run = NoRun
    /\ scen = IF categories = ScenarioLadder THEN ScenStart ELSE ScenOff

InitSM ==
    /\ categories \in Ladders
    /\ InitSMState

register_observer(observer) ==
    /\ Len(observers) < MaxObservers
    /\ observers' = Append(observers, observer)
    /\ UNCHANGED <<categories, current_state, called, last_bw,
                   previous_state, notified, idx_hist, nonpos_run, scen>>
    /\ UNCHANGED <<mon_vars, ext_vars>>

update_state(bandwidth) ==
    LET new == transition(categories, current_state, bandwidth)
        follows == /\ scen.on
                   /\ scen.step < Len(ScenarioInputs)
                   /\ bandwidth = ScenarioInputs[scen.step + 1]
                   /\ observers # <<>>
    IN
    /\ previous_state' = current_state
    /\ current_state' = new
    /\ notified' = IF state_changed(new, current_state)
                   THEN notify_observers(observers, new)
                   ELSE <<>>
    /\ called' = TRUE
    /\ last_bw' = bandwidth
    /\ idx_hist' = IF called /\ bandwidth = last_bw
                   THEN Push3(idx_hist, index(categories, new))
                   ELSE <<index(categories, current_state),
                          index(categories, new)>>
    /\ nonpos_run' =
          IF bandwidth <= 0
          THEN [start |-> IF nonpos_run.len = 0
                          THEN index(categories, current_state)
                          ELSE nonpos_run.start,
                len |-> Min(nonpos_run.len + 1, Len(categories))]
          ELSE NoRun
    /\ scen' =
          IF follows
          THEN [on |-> TRUE,
                step |-> scen.step + 1,
                levels |-> IF notified' # <<>>
                           THEN Append(scen.levels, notified'[1].level)
                           ELSE scen.levels]
          ELSE ScenOff
    /\ UNCHANGED <<categories, observers>>
    /\ UNCHANGED <<mon_vars, ext_vars>>

-----------------------------------------------------------------------------
(* BandwidthMonitor *)

Threads == 1..NumThreads
BytesVals == 0..MaxBytes

NoValue == [kind |-> "none", value |-> 0]
Value(v) == [kind |-> "value", value |-> v]
ZeroDivisionError == [kind |-> "ZeroDivisionError", value |-> 0]

\* int(x): truncation toward zero of n / d, d > 0
Trunc(n, d) == IF n >= 0 THEN n \div d ELSE -((-n) \div d)

\* lock_free, of a lock that excludes nobody
lock_free_always(l) == TRUE

\* Lock.acquire succeeds only on a free lock
lock_free(l) == l = 0

\* expired, evicting on >= instead of >
expired_at_window(ct, ts, w) == Len(ts) > 0 /\ ct - ts[1] >= w * TicksPerSecond

\* the while condition of register_received_bytes
expired(ct, ts, w) == Len(ts) > 0 /\ ct - ts[1] > w * TicksPerSecond

\* elapsed_time, taking the span of a single sample too
elapsed_time_from_one(ts) ==
    IF Len(ts) > 0 THEN Last(ts) - ts[1] ELSE TicksPerSecond

\* elapsed_time of get_bandwidth, in ticks (the literal 1 is one second)
elapsed_time(ts) == IF Len(ts) > 1 THEN Last(ts) - ts[1] ELSE TicksPerSecond

\* int(total_bytes_received / elapsed_time), the division raising on 0
bandwidth_of(ts, bs) ==
    LET total_bytes_received == SumSeq(bs) IN
    IF elapsed_time(ts) = 0
    THEN ZeroDivisionError
    ELSE Value(Trunc(total_bytes_received * TicksPerSecond, elapsed_time(ts)))

InitMon ==
    /\ window_size \in 1..MaxWindow
    /\ bytes_received = <<>>
    /\ timestamps = <<>>
    /\ lock = 0
    /\ now = 0
    /\ pc = [t \in Threads |-> "idle"]
    /\ received_bytes = [t \in Threads |-> 0]
    /\ current_time = [t \in Threads |-> 0]
    /\ ret = [t \in Threads |-> NoValue]
    /\ call_time = [t \in Threads |-> 0]
    /\ reported = <<>>

\* register_received_bytes calls begun and not yet appended
Pending ==
    {t \in Threads :
        pc[t] \in {"reg_lock", "reg_time", "reg_append_bytes", "reg_append_ts"}}

\* the threads inside a with self.lock block
InCritical == {t \in Threads : pc[t] \notin {"idle", "reg_lock", "gb_lock"}}

\* time.time() moves on
tick ==
    /\ now < MaxTime
    /\ now' = now + 1
    /\ UNCHANGED <<window_size, bytes_received, timestamps, lock, pc,
                   received_bytes, current_time, ret, call_time, reported>>
    /\ UNCHANGED <<sm_vars, ext_vars>>

\* a thread calls register_received_bytes(b) and reaches the with statement
call_register(t, b) ==
    /\ pc[t] = "idle"
    /\ Len(reported) + Cardinality(Pending) < MaxReports
    /\ received_bytes' = [received_bytes EXCEPT ![t] = b]
    /\ pc' = [pc EXCEPT ![t] = "reg_lock"]
    /\ UNCHANGED <<window_size, bytes_received, timestamps, lock, now,
                   current_time, ret, call_time, reported>>
    /\ UNCHANGED <<sm_vars, ext_vars>>

\* line 40: with self.lock
reg_acquire(t) ==
    /\ pc[t] = "reg_lock"
    /\ lock_free(lock)
    /\ lock' = t
    /\ pc' = [pc EXCEPT ![t] = "reg_time"]
    /\ UNCHANGED <<window_size, bytes_received, timestamps, now,
                   received_bytes, current_time, ret, call_time, reported>>
    /\ UNCHANGED <<sm_vars, ext_vars>>

\* line 41: current_time = time.time()
reg_read_time(t) ==
    /\ pc[t] = "reg_time"
    /\ current_time' = [current_time EXCEPT ![t] = now]
    /\ pc' = [pc EXCEPT ![t] = "reg_append_bytes"]
    /\ UNCHANGED <<window_size, bytes_received, timestamps, lock, now,
                   received_bytes, ret, call_time, reported>>
    /\ UNCHANGED <<sm_vars, ext_vars>>

\* line 42: self.bytes_received.append(received_bytes)
reg_append_bytes(t) ==
    /\ pc[t] = "reg_append_bytes"
    /\ bytes_received' = Append(bytes_received, received_bytes[t])
    /\ pc' = [pc EXCEPT ![t] = "reg_append_ts"]
    /\ UNCHANGED <<window_size, timestamps, lock, now, received_bytes,
                   current_time, ret, call_time, reported>>
    /\ UNCHANGED <<sm_vars, ext_vars>>

\* line 43: self.timestamps.append(current_time)
reg_append_timestamp(t) ==
    /\ pc[t] = "reg_append_ts"
    /\ timestamps' = Append(timestamps, current_time[t])
    /\ reported' = Append(reported, <<current_time[t], received_bytes[t]>>)
    /\ pc' = [pc EXCEPT ![t] = "reg_while"]
    /\ UNCHANGED <<window_size, bytes_received, lock, now, received_bytes,
                   current_time, ret, call_time>>
    /\ UNCHANGED <<sm_vars, ext_vars>>

\* lines 45-46: the while test and, when it holds, self.timestamps.popleft()
reg_while(t) ==
    /\ pc[t] = "reg_while"
    /\ IF expired(current_time[t], timestamps, window_size)
       THEN /\ timestamps' = Tail(timestamps)
            /\ pc' = [pc EXCEPT ![t] = "reg_pop_bytes"]
       ELSE /\ timestamps' = timestamps
            /\ pc' = [pc EXCEPT ![t] = "reg_return"]
    /\ UNCHANGED <<window_size, bytes_received, lock, now, received_bytes,
                   current_time, ret, call_time, reported>>
    /\ UNCHANGED <<sm_vars, ext_vars>>

\* line 47: self.bytes_received.popleft()
reg_popleft_bytes(t) ==
    /\ pc[t] = "reg_pop_bytes"
    /\ bytes_received' = Tail(bytes_received)
    /\ pc' = [pc EXCEPT ![t] = "reg_while"]
    /\ UNCHANGED <<window_size, timestamps, lock, now, received_bytes,
                   current_time, ret, call_time, reported>>
    /\ UNCHANGED <<sm_vars, ext_vars>>

\* the with block ends: the lock is released and the call returns
reg_return(t) ==
    /\ pc[t] = "reg_return"
    /\ lock' = 0
    /\ pc' = [pc EXCEPT ![t] = "idle"]
    /\ received_bytes' = [received_bytes EXCEPT ![t] = 0]
    /\ current_time' = [current_time EXCEPT ![t] = 0]
    /\ UNCHANGED <<window_size, bytes_received, timestamps, now, ret,
                   call_time, reported>>
    /\ UNCHANGED <<sm_vars, ext_vars>>

\* a thread calls get_bandwidth() and reaches the with statement
call_get_bandwidth(t) ==
    /\ pc[t] = "idle"
    /\ pc' = [pc EXCEPT ![t] = "gb_lock"]
    /\ UNCHANGED <<window_size, bytes_received, timestamps, lock, now,
                   received_bytes, current_time, ret, call_time, reported>>
    /\ UNCHANGED <<sm_vars, ext_vars>>

\* line 56: with self.lock
gb_acquire(t) ==
    /\ pc[t] = "gb_lock"
    /\ lock_free(lock)
    /\ lock' = t
    /\ pc' = [pc EXCEPT ![t] = "gb_compute"]
    /\ UNCHANGED <<window_size, bytes_received, timestamps, now,
                   received_bytes, current_time, ret, call_time, reported>>
    /\ UNCHANGED <<sm_vars, ext_vars>>

\* get_bandwidth dropping an expired sample before it computes
gb_compute_evicting(t) ==
    /\ pc[t] = "gb_compute"
    /\ IF expired(now, timestamps, window_size)
       THEN /\ timestamps' = Tail(timestamps)
            /\ bytes_received' = Tail(bytes_received)
       ELSE UNCHANGED <<timestamps, bytes_received>>
    /\ ret' = [ret EXCEPT ![t] = bandwidth_of(timestamps', bytes_received')]
    /\ call_time' = [call_time EXCEPT ![t] = now]
    /\ pc' = [pc EXCEPT ![t] = "gb_return"]
    /\ UNCHANGED <<window_size, lock, now, received_bytes, current_time,
                   reported>>
    /\ UNCHANGED <<sm_vars, ext_vars>>

\* lines 57-59: the value to return (or the exception to raise)
gb_compute(t) ==
    /\ pc[t] = "gb_compute"
    /\ ret' = [ret EXCEPT ![t] = bandwidth_of(timestamps, bytes_received)]
    /\ call_time' = [call_time EXCEPT ![t] = now]
    /\ pc' = [pc EXCEPT ![t] = "gb_return"]
    /\ UNCHANGED <<window_size, bytes_received, timestamps, lock, now,
                   received_bytes, current_time, reported>>
    /\ UNCHANGED <<sm_vars, ext_vars>>

\* the with block ends: the lock is released, the caller has the result
gb_return(t) ==
    /\ pc[t] = "gb_return"
    /\ lock' = 0
    /\ pc' = [pc EXCEPT ![t] = "idle"]
    /\ ret' = [ret EXCEPT ![t] = NoValue]
    /\ call_time' = [call_time EXCEPT ![t] = 0]
    /\ UNCHANGED <<window_size, bytes_received, timestamps, now,
                   received_bytes, current_time, reported>>
    /\ UNCHANGED <<sm_vars, ext_vars>>

-----------------------------------------------------------------------------
(* BandwidthStateMachine.update_state called from several threads.  The     *)
(* method takes no lock, so each statement is a step of its own.  A level   *)
(* of 0 stands for "none": ladder values are positive.                      *)

Updaters == 1..NumUpdaters

UpdIdle ==
    [pc |-> "idle", bandwidth |-> 0, previous_state |-> 0,
     current_index |-> 0, produced |-> 0, k |-> 0, passed |-> 0]

\* observer lists registered before the threads start
ObserverLists ==
    UNION {[1..n -> Callbacks] : n \in 1..MaxObservers}

\* the throughputs the threads pass: below every level, inside the ladder,
\* at least twice every level
UpdBwVals == {0, MaxVal, 2 * MaxVal}

IdleUpd == upd = [u \in Updaters |-> UpdIdle]

InitUpd ==
    /\ categories \in Ladders
    /\ current_state = categories[1]
    /\ observers \in ObserverLists
    /\ called = FALSE
    /\ last_bw = 0
    /\ previous_state = categories[1]
    /\ notified = <<>>
    /\ idx_hist = <<0>>
    /\ nonpos_run = NoRun
    /\ scen = ScenOff
    /\ IdleUpd

\* a thread calls update_state(bandwidth)
u_call(u, bandwidth) ==
    /\ upd[u].pc = "idle"
    /\ upd' = [upd EXCEPT ![u] = [UpdIdle EXCEPT !.pc = "prev",
                                                 !.bandwidth = bandwidth]]
    /\ UNCHANGED <<sm_vars, not_upd>>

\* line 159: previous_state = self.current_state
u_previous_state(u) ==
    /\ upd[u].pc = "prev"
    /\ upd' = [upd EXCEPT ![u].previous_state = current_state,
                          ![u].pc = "index"]
    /\ UNCHANGED <<sm_vars, not_upd>>

\* lines 160-164: current_index = categories.index(self.current_state)
u_index(u) ==
    /\ upd[u].pc = "index"
    /\ upd' = [upd EXCEPT ![u].current_index = index(categories, current_state),
                          ![u].pc = "assign"]
    /\ UNCHANGED <<sm_vars, not_upd>>

\* lines 166-169: the if/elif on categories[current_index].value
u_assign(u) ==
    LET at_index == categories[upd[u].current_index + 1]
        new == transition(categories, at_index, upd[u].bandwidth)
        assigned == \/ upd[u].bandwidth < at_index
                    \/ upd[u].bandwidth >= 2 * at_index
    IN
    /\ upd[u].pc = "assign"
    /\ current_state' = IF assigned THEN new ELSE current_state
    /\ upd' = [upd EXCEPT ![u].produced = IF assigned THEN new ELSE 0,
                          ![u].pc = "compare"]
    /\ UNCHANGED <<categories, observers, called, last_bw, previous_state,
                   notified, idx_hist, nonpos_run, scen>>
    /\ UNCHANGED not_upd

\* line 171: if self.current_state != previous_state
u_compare(u) ==
    /\ upd[u].pc = "compare"
    /\ upd' = IF state_changed(current_state, upd[u].previous_state)
              THEN [upd EXCEPT ![u].pc = "notify", ![u].k = 1]
              ELSE [upd EXCEPT ![u] = UpdIdle]
    /\ UNCHANGED <<sm_vars, not_upd>>

\* lines 152-153: the next observer is called with self.current_state, or
\* the loop ends and update_state returns
u_notify(u) ==
    /\ upd[u].pc = "notify"
    /\ upd' = IF upd[u].k <= Len(observers)
              THEN [upd EXCEPT ![u].passed = current_state,
                               ![u].pc = "callback"]
              ELSE [upd EXCEPT ![u] = UpdIdle]
    /\ UNCHANGED <<sm_vars, not_upd>>

\* the observer returns
u_callback_return(u) ==
    /\ upd[u].pc = "callback"
    /\ upd' = [upd EXCEPT ![u].k = upd[u].k + 1,
                          ![u].passed = 0,
                          ![u].pc = "notify"]
    /\ UNCHANGED <<sm_vars, not_upd>>

-----------------------------------------------------------------------------
(* BandwidthCategoryMeta.__new__: the ladder of bandwidth categories.  The  *)
(* float product by 0.07 / 8 is computed as the exact fraction 7 / 800.     *)

Resolutions == (1..MaxDim) \X (1..MaxDim)
Catalogs == {c \in SUBSET Resolutions : Cardinality(c) <= MaxResolutions}

FrameRates == {24, 30}
ColorDepths == {16, 32}

\* line 85: int(width * height * fps * color_depth * compression_ratio / 8)
combination_bandwidth(width, height, fps, color_depth) ==
    (width * height * fps * color_depth * 7) \div 800

\* lines 77-86: the set of the bandwidths of every combination
unique_bandwidths(resolutions) ==
    {combination_bandwidth(r[1], r[2], fps, color_depth) :
        r \in resolutions, fps \in FrameRates, color_depth \in ColorDepths}

\* sorted, largest first
RECURSIVE sorted_descending(_)
sorted_descending(S) ==
    IF S = {}
    THEN <<>>
    ELSE LET m == CHOOSE x \in S : \A y \in S : y <= x
         IN <<m>> \o sorted_descending(S \ {m})

\* line 89: sorted(list(unique_bandwidths))
RECURSIVE sorted(_)
sorted(S) ==
    IF S = {}
    THEN <<>>
    ELSE LET m == CHOOSE x \in S : \A y \in S : x <= y
         IN <<m>> \o sorted(S \ {m})

\* lines 90-91: dct[f"BANDWIDTH_{i}"] = bandwidth, for i, bandwidth in
\* enumerate(sorted_bandwidths)
enumerate(sorted_bandwidths) ==
    {<<k - 1, sorted_bandwidths[k]>> : k \in 1..Len(sorted_bandwidths)}

IdleLadder ==
    /\ catalog = {}
    /\ built = FALSE
    /\ members = {}

InitLad ==
    /\ catalog \in Catalogs
    /\ built = FALSE
    /\ members = {}

\* BandwidthCategoryMeta.__new__
new_category_meta ==
    /\ ~built
    /\ built' = TRUE
    /\ members' = enumerate(sorted(unique_bandwidths(catalog)))
    /\ UNCHANGED catalog
    /\ UNCHANGED <<sm_vars, mon_vars, upd_vars, fmt_vars, cl_vars>>

-----------------------------------------------------------------------------
(* BandwidthFormatter.format.  The string returned is modelled as the       *)
(* number printed and the unit that follows it.                             *)

Kilo == 1000
Mega == 1000 * 1000
Giga == 1000 * 1000 * 1000

\* the arguments: the half multiples of each unit, and their neighbours; of
\* Giga at most four halves, which the model checker's integers can hold
FormatInputs ==
    {(p[1] * (p[2] \div 2)) + d :
        p \in {q \in (0..(2 * MaxMantissa)) \X {2, Kilo, Mega, Giga} :
                  q[2] < Giga \/ q[1] <= 4},
        d \in {-1, 0, 1}}

NoOutput == [number |-> 0, unit |-> "none"]

\* unit_value, cutting the quotient instead of rounding it
fixed0_truncating(n, unit) == n \div unit

\* f"{n / unit:.0f}": the quotient rounded to the nearest integer, a tie
\* going to the even one
fixed0(n, unit) ==
    LET q == n \div unit
        r == n % unit
    IN
    IF 2 * r < unit THEN q
    ELSE IF 2 * r > unit THEN q + 1
    ELSE IF q % 2 = 0 THEN q ELSE q + 1

\* BandwidthFormatter.format
format(bandwidth_arg) ==
    IF bandwidth_arg < Kilo
    THEN [number |-> bandwidth_arg, unit |-> "Bps"]
    ELSE IF bandwidth_arg < Mega
         THEN [number |-> fixed0(bandwidth_arg, Kilo), unit |-> "Kbps"]
         ELSE IF bandwidth_arg < Giga
              THEN [number |-> fixed0(bandwidth_arg, Mega), unit |-> "Mbps"]
              ELSE [number |-> fixed0(bandwidth_arg, Giga), unit |-> "Gbps"]

IdleFmt ==
    /\ fmt_in = 0
    /\ fmt_out = NoOutput

InitFmt ==
    /\ fmt_in \in FormatInputs
    /\ fmt_out = NoOutput

\* a call of BandwidthFormatter.format(fmt_in)
call_format ==
    /\ fmt_out = NoOutput
    /\ fmt_out' = format(fmt_in)
    /\ UNCHANGED fmt_in
    /\ UNCHANGED <<sm_vars, mon_vars, upd_vars, lad_vars, cl_vars>>

-----------------------------------------------------------------------------
(* Client.run and Client.stop.  "flat" is the class of src/client.py,       *)
(* "pkg" the class of src/client/client.py.  One thread calls run(), one    *)
(* after the other; a second thread calls stop().  AutoLockingValue.get and *)
(* set are atomic.                                                          *)

Variants == {"flat", "pkg"}

\* the positions of run() inside its while loop
LoopPcs == {"while", "events", "quit_stop", "quit_set", "draw"}

NoHistory ==
    [calls |-> 0, starts |-> 0, raised |-> 0, stops |-> 0, quits |-> 0,
     stop_in_loop |-> FALSE]

IdleClient ==
    /\ cl_variant = "flat"
    /\ cl_running = FALSE
    /\ cl_components = "new"
    /\ cl_pc = "idle"
    /\ cl_stop_pc = "idle"
    /\ cl_quit = FALSE
    /\ cl_hist = NoHistory

\* Client.__init__: self._running = AutoLockingValue(False)
InitCl ==
    /\ cl_variant \in Variants
    /\ cl_running = FALSE
    /\ cl_components = "new"
    /\ cl_pc = "idle"
    /\ cl_stop_pc = "idle"
    /\ cl_quit = FALSE
    /\ cl_hist = NoHistory

\* a call of run()
run_call ==
    /\ cl_pc = "idle"
    /\ cl_hist.calls < MaxRunCalls
    /\ cl_pc' = "check"
    /\ cl_hist' = [cl_hist EXCEPT !.calls = @ + 1]
    /\ UNCHANGED <<cl_variant, cl_running, cl_components, cl_stop_pc, cl_quit>>
    /\ UNCHANGED not_cl

\* if self._running.get(): raise RuntimeError(...)
run_check ==
    /\ cl_pc = "check"
    /\ IF cl_running
       THEN /\ cl_pc' = "idle"
            /\ cl_hist' = [cl_hist EXCEPT !.raised = @ + 1]
       ELSE /\ cl_pc' = "set_running"
            /\ UNCHANGED cl_hist
    /\ UNCHANGED <<cl_variant, cl_running, cl_components, cl_stop_pc, cl_quit>>
    /\ UNCHANGED not_cl

\* self._running.set(True): this run has started
run_set_running ==
    /\ cl_pc = "set_running"
    /\ cl_running' = TRUE
    /\ cl_hist' = [cl_hist EXCEPT !.starts = @ + 1, !.stop_in_loop = FALSE]
    /\ cl_pc' = IF cl_variant = "flat" THEN "start" ELSE "while"
    /\ UNCHANGED <<cl_variant, cl_components, cl_stop_pc, cl_quit>>
    /\ UNCHANGED not_cl

\* src/client.py lines 46-47: self._connection.start(); self._pipeline.start()
run_start ==
    /\ cl_pc = "start"
    /\ cl_components' = "started"
    /\ cl_pc' = "while"
    /\ UNCHANGED <<cl_variant, cl_running, cl_stop_pc, cl_quit, cl_hist>>
    /\ UNCHANGED not_cl

\* while self._running.get()
run_while ==
    /\ cl_pc = "while"
    /\ cl_pc' = IF cl_running THEN "events" ELSE "pygame_quit"
    /\ UNCHANGED <<cl_variant, cl_running, cl_components, cl_stop_pc, cl_quit,
                   cl_hist>>
    /\ UNCHANGED not_cl

\* for event in pygame.event.get(): if event.type == QUIT: ...
run_events ==
    /\ cl_pc = "events"
    /\ cl_quit' = FALSE
    /\ IF ~cl_quit
       THEN /\ cl_pc' = "draw"
            /\ UNCHANGED cl_running
       ELSE IF cl_variant = "flat"
            THEN \* self.stop(); break
                 /\ cl_pc' = "quit_stop"
                 /\ UNCHANGED cl_running
            ELSE \* self._running.set(False)
                 /\ cl_pc' = "draw"
                 /\ cl_running' = FALSE
    /\ UNCHANGED <<cl_variant, cl_components, cl_stop_pc, cl_hist>>
    /\ UNCHANGED not_cl

\* src/client.py, stop() called at line 57: lines 67-68
run_quit_stop ==
    /\ cl_pc = "quit_stop"
    /\ cl_components' = "stopped"
    /\ cl_pc' = "quit_set"
    /\ UNCHANGED <<cl_variant, cl_running, cl_stop_pc, cl_quit, cl_hist>>
    /\ UNCHANGED not_cl

\* src/client.py, stop() called at line 57: line 69
run_quit_set ==
    /\ cl_pc = "quit_set"
    /\ cl_running' = FALSE
    /\ cl_pc' = "draw"
    /\ UNCHANGED <<cl_variant, cl_components, cl_stop_pc, cl_quit, cl_hist>>
    /\ UNCHANGED not_cl

\* screen.fill, pygame.display.flip, clock.tick
run_draw ==
    /\ cl_pc = "draw"
    /\ cl_pc' = "while"
    /\ UNCHANGED <<cl_variant, cl_running, cl_components, cl_stop_pc, cl_quit,
                   cl_hist>>
    /\ UNCHANGED not_cl

\* pygame.quit(); run() returns
run_return ==
    /\ cl_pc = "pygame_quit"
    /\ cl_pc' = "idle"
    /\ UNCHANGED <<cl_variant, cl_running, cl_components, cl_stop_pc, cl_quit,
                   cl_hist>>
    /\ UNCHANGED not_cl

\* the user closes the window
post_quit ==
    /\ ~cl_quit
    /\ cl_hist.quits < MaxQuits
    /\ cl_quit' = TRUE
    /\ cl_hist' = [cl_hist EXCEPT !.quits = @ + 1]
    /\ UNCHANGED <<cl_variant, cl_running, cl_components, cl_pc, cl_stop_pc>>
    /\ UNCHANGED not_cl

\* a call of stop() from the second thread
stop_call ==
    /\ cl_stop_pc = "idle"
    /\ cl_hist.stops < MaxStopCalls
    /\ cl_stop_pc' = IF cl_variant = "flat" THEN "components" ELSE "set"
    /\ cl_hist' = [cl_hist EXCEPT !.stops = @ + 1,
                                  !.stop_in_loop = cl_pc \in LoopPcs]
    /\ UNCHANGED <<cl_variant, cl_running, cl_components, cl_pc, cl_quit>>
    /\ UNCHANGED not_cl

\* src/client.py line 69: self._running.set(False)
\* src/client/client.py line 90: self._running.set(True)
stop_set ==
    /\ cl_stop_pc = "set"
    /\ IF cl_variant = "flat"
       THEN /\ cl_running' = FALSE
            /\ cl_stop_pc' = "returned"
       ELSE /\ cl_running' = TRUE
            /\ cl_stop_pc' = "components"
    /\ UNCHANGED <<cl_variant, cl_components, cl_pc, cl_quit, cl_hist>>
    /\ UNCHANGED not_cl

\* src/client.py lines 67-68, src/client/client.py lines 91-93: the
\* components are stopped
stop_components ==
    /\ cl_stop_pc = "components"
    /\ cl_components' = "stopped"
    /\ cl_stop_pc' = IF cl_variant = "flat" THEN "set" ELSE "returned"
    /\ UNCHANGED <<cl_variant, cl_running, cl_pc, cl_quit, cl_hist>>
    /\ UNCHANGED not_cl

\* stop() has returned; its caller goes on
stop_return ==
    /\ cl_stop_pc = "returned"
    /\ cl_stop_pc' = "idle"
    /\ cl_hist' = [cl_hist EXCEPT !.stop_in_loop = FALSE]
    /\ UNCHANGED <<cl_variant, cl_running, cl_components, cl_pc, cl_quit>>
    /\ UNCHANGED not_cl

-----------------------------------------------------------------------------
(* Specifications *)

\* the state machine, called from one thread; the monitor is left alone
IdleMon ==
    /\ window_size = 1
    /\ bytes_received = <<>>
    /\ timestamps = <<>>
    /\ lock = 0
    /\ now = 0
    /\ pc = [t \in Threads |-> "idle"]
    /\ received_bytes = [t \in Threads |-> 0]
    /\ current_time = [t \in Threads |-> 0]
    /\ ret = [t \in Threads |-> NoValue]
    /\ call_time = [t \in Threads |-> 0]
    /\ reported = <<>>

\* the monitor and its threads; the state machine is left alone
IdleSM ==
    /\ categories = <<1>>
    /\ current_state = 1
    /\ observers = <<>>
    /\ called = FALSE
    /\ last_bw = 0
    /\ previous_state = 1
    /\ notified = <<>>
    /\ idx_hist = <<0>>
    /\ nonpos_run = NoRun
    /\ scen = ScenOff

IdleExt == IdleUpd /\ IdleLadder /\ IdleFmt /\ IdleClient

Init == InitSM /\ IdleMon /\ IdleExt

Next ==
    \/ \E observer \in Callbacks : register_observer(observer)
    \/ \E bandwidth \in BwVals : update_state(bandwidth)

Spec == Init /\ [][Next]_vars

InitMonitor == IdleSM /\ InitMon /\ IdleExt

NextMonitor ==
    \/ tick
    \/ \E t \in Threads, b \in BytesVals : call_register(t, b)
    \/ \E t \in Threads : reg_acquire(t)
    \/ \E t \in Threads : reg_read_time(t)
    \/ \E t \in Threads : reg_append_bytes(t)
    \/ \E t \in Threads : reg_append_timestamp(t)
    \/ \E t \in Threads : reg_while(t)
    \/ \E t \in Threads : reg_popleft_bytes(t)
    \/ \E t \in Threads : reg_return(t)
    \/ \E t \in Threads : call_get_bandwidth(t)
    \/ \E t \in Threads : gb_acquire(t)
    \/ \E t \in Threads : gb_compute(t)
    \/ \E t \in Threads : gb_return(t)

SpecMonitor == InitMonitor /\ [][NextMonitor]_vars

\* the state machine on the scenario's ladder
InitScenario ==
    /\ categories = ScenarioLadder
    /\ InitSMState
    /\ IdleMon
    /\ IdleExt

NextScenario ==
    \/ \E observer \in Callbacks : register_observer(observer)
    \/ \E bandwidth \in ScenarioBwVals : update_state(bandwidth)

SpecScenario == InitScenario /\ [][NextScenario]_vars

InitUpdate == InitUpd /\ IdleMon /\ IdleLadder /\ IdleFmt /\ IdleClient

InitLadder == IdleSM /\ IdleMon /\ IdleUpd /\ InitLad /\ IdleFmt /\ IdleClient

NextLadder == new_category_meta

SpecLadder == InitLadder /\ [][NextLadder]_vars

InitFormat == IdleSM /\ IdleMon /\ IdleUpd /\ IdleLadder /\ InitFmt /\ IdleClient

NextFormat == call_format

SpecFormat == InitFormat /\ [][NextFormat]_vars

InitClient == IdleSM /\ IdleMon /\ IdleUpd /\ IdleLadder /\ IdleFmt /\ InitCl

NextClient ==
    \/ run_call
    \/ run_check
    \/ run_set_running
    \/ run_start
    \/ run_while
    \/ run_events
    \/ run_quit_stop
    \/ run_quit_set
    \/ run_draw
    \/ run_return
    \/ post_quit
    \/ stop_call
    \/ stop_set
    \/ stop_components
    \/ stop_return

SpecClient == InitClient /\ [][NextClient]_vars

NextUpdate ==
    \/ \E u \in Updaters, bandwidth \in UpdBwVals : u_call(u, bandwidth)
    \/ \E u \in Updaters : u_previous_state(u)
    \/ \E u \in Updaters : u_index(u)
    \/ \E u \in Updaters : u_assign(u)
    \/ \E u \in Updaters : u_compare(u)
    \/ \E u \in Updaters : u_notify(u)
    \/ \E u \in Updaters : u_callback_return(u)

SpecUpdate == InitUpdate /\ [][NextUpdate]_vars

-----------------------------------------------------------------------------
(* Properties of the state machine (Spec) *)

PrevIndex == index(categories, previous_state)
CurIndex == index(categories, current_state)
PrevValue == previous_state
TopIndex == Len(categories) - 1

\* C1: whatever the ladder, the current index and the throughput (zero and
\* negative included), one update_state call moves the index by at most 1.
C1_StepAtMostOne ==
    called => CurIndex \in {PrevIndex - 1, PrevIndex, PrevIndex + 1}

\* a call whose throughput is at least twice the value two levels up moved
\* the index up by exactly one
C1_Witness ==
    /\ called
    /\ PrevIndex + 2 <= TopIndex
    /\ last_bw >= 2 * categories[PrevIndex + 3]
    /\ CurIndex = PrevIndex + 1

\* C2: a call that changes the index invokes every registration exactly
\* once, a call that leaves the index unchanged (clamped at 0 or N-1, or
\* repeating the previous throughput) invokes nothing.  A step that leaves
\* observers alone is an update_state call.
C2_NotifiedOncePerChange ==
    [][observers' = observers =>
        IF index(categories, current_state') # index(categories, current_state)
        THEN /\ Len(notified') = Len(observers)
             /\ \A k \in 1..Len(observers) :
                    notified'[k].observer = observers[k]
        ELSE notified' = <<>>]_vars

\* a call that repeated the previous throughput at the clamped top index
\* notified nobody although two observers are registered, after a call that
\* had notified both
C2_Witness ==
    /\ called
    /\ Len(observers) = 2
    /\ Len(idx_hist) = 3
    /\ idx_hist[2] # idx_hist[1]
    /\ idx_hist[3] = idx_hist[2]
    /\ CurIndex = TopIndex
    /\ last_bw >= 2 * current_state
    /\ notified = <<>>

\* C3: promotion happens exactly when bw >= 2 * v[i]: such a call moves the
\* index to min(i + 1, N - 1), any smaller bw does not move it upward, and a
\* bw in v[i] .. 2 * v[i] - 1 leaves it at i.
C3_PromoteExactlyAtDouble ==
    called =>
        /\ last_bw >= 2 * PrevValue => CurIndex = Min(PrevIndex + 1, TopIndex)
        /\ last_bw < 2 * PrevValue => CurIndex <= PrevIndex
        /\ (PrevValue <= last_bw /\ last_bw < 2 * PrevValue) =>
                CurIndex = PrevIndex

\* update_state(2 * v[i]) below the top promoted by one
C3_Witness ==
    /\ called
    /\ last_bw = 2 * PrevValue
    /\ PrevIndex < TopIndex
    /\ CurIndex = PrevIndex + 1

\* C4: demotion happens exactly when bw < v[i]: such a call moves the index
\* to max(i - 1, 0), and a call with bw >= v[i] (bw = v[i] included) never
\* leaves the index below i.
C4_DemoteExactlyBelowValue ==
    called =>
        /\ last_bw < PrevValue => CurIndex = Max(PrevIndex - 1, 0)
        /\ last_bw >= PrevValue => CurIndex >= PrevIndex

\* update_state(v[i]) above the floor did not demote
C4_Witness ==
    /\ called
    /\ last_bw = PrevValue
    /\ PrevIndex > 0
    /\ CurIndex = PrevIndex

\* C5: with the same throughput passed to every successive call the level
\* never alternates between two adjacent levels: the indices seen under one
\* repeated throughput never read a, b, a with a # b.
C5_NoOscillation ==
    ~(/\ Len(idx_hist) = 3
      /\ idx_hist[1] = idx_hist[3]
      /\ idx_hist[1] # idx_hist[2])

\* C12: on every index change every registration so far is invoked inside
\* that update_state call, in registration order, with the new level, which
\* is what get_current_state returns then; registration only appends and
\* never deduplicates, so a callback registered k times is invoked k times.
C12_AllObserversInOrder ==
    [][/\ (observers' = observers /\ current_state' # current_state) =>
            /\ Len(notified') = Len(observers)
            /\ \A k \in 1..Len(observers) :
                   /\ notified'[k].observer = observers[k]
                   /\ notified'[k].level = get_current_state'
       /\ observers' # observers =>
            \E c \in Callbacks : observers' = Append(observers, c)]_vars

\* one callback registered twice was invoked twice by the last call, each
\* time with the level that is now current
C12_Witness ==
    /\ called
    /\ Len(observers) = 2
    /\ observers[1] = observers[2]
    /\ Len(notified) = 2
    /\ notified[1].observer = notified[2].observer
    /\ notified[2].level = get_current_state

\* C13: the index is 0 on construction and stays within 0..N-1 whatever the
\* throughputs; a demotion at index 0 and a promotion at index N-1 leave
\* the index where it is.
C13_IndexInRange ==
    /\ \E k \in 1..Len(categories) : categories[k] = current_state
    /\ CurIndex \in 0..TopIndex
    /\ ~called => CurIndex = 0
    /\ (called /\ PrevIndex = 0 /\ last_bw < PrevValue) => CurIndex = 0
    /\ (called /\ PrevIndex = TopIndex /\ last_bw >= 2 * PrevValue) =>
            CurIndex = TopIndex

\* a demotion at index 0 of a ladder with several levels stayed at index 0
C13_Witness ==
    /\ called
    /\ TopIndex > 0
    /\ PrevIndex = 0
    /\ last_bw < PrevValue
    /\ CurIndex = 0

\* C14: a throughput <= 0 never promotes and moves the index to
\* max(i - 1, 0); after a run of such calls that started at index i the
\* index is max(i - length, 0), so it is 0 after i calls and stays 0.
C14_NonPositiveDemotes ==
    /\ (called /\ last_bw <= 0) => CurIndex = Max(PrevIndex - 1, 0)
    /\ nonpos_run.len > 0 =>
            CurIndex = Max(nonpos_run.start - nonpos_run.len, 0)
    /\ (nonpos_run.len > 0 /\ nonpos_run.len >= nonpos_run.start) =>
            CurIndex = 0

\* a run of calls with throughput <= 0 that started two levels up has
\* reached index 0 and stayed there on a further call
C14_Witness ==
    /\ nonpos_run.start >= 2
    /\ nonpos_run.len > nonpos_run.start
    /\ PrevIndex = 0
    /\ CurIndex = 0

ScenarioIndices == <<0, 1, 0, 1, 2, 2>>
ScenarioLevels == <<500, 100, 500, 2000>>
ScenarioNotified == <<0, 1, 2, 3, 4, 4>>

\* C15: on the ladder [100, 500, 2000] from index 0 the calls 50, 250, 50,
\* 5000, 5000, 5000 give the indices 0, 1, 0, 1, 2, 2 and four
\* notifications, with levels 500, 100, 500, 2000 in that order; the first
\* and the last call notify nobody.
C15_Scenario ==
    (scen.on /\ scen.step > 0) =>
        /\ CurIndex = ScenarioIndices[scen.step]
        /\ scen.levels =
               SubSeq(ScenarioLevels, 1, ScenarioNotified[scen.step])
        /\ scen.step \in {1, Len(ScenarioInputs)} => notified = <<>>

\* the six calls of the scenario have been made, with an observer listening
C15_Witness ==
    /\ scen.on
    /\ scen.step = Len(ScenarioInputs)
    /\ observers # <<>>

-----------------------------------------------------------------------------
(* Properties of the monitor (SpecMonitor) *)

WindowTicks == window_size * TicksPerSecond

\* the retained samples, pairing timestamps and byte counts
Retained ==
    [k \in 1..Min(Len(timestamps), Len(bytes_received)) |->
        <<timestamps[k], bytes_received[k]>>]

\* the threads that have a get_bandwidth result in hand, lock still held
Returning == {t \in Threads : pc[t] = "gb_return"}

\* C6: get_bandwidth never includes a sample whose age exceeds window_size,
\* also when no register_received_bytes call happened in between: what it
\* returns is what the samples of age <= window_size alone give.
C6_NoStaleSample ==
    \A t \in Returning :
        LET InWindow(s) == call_time[t] - s[1] <= WindowTicks
            fresh == SelectSeq(Retained, InWindow)
        IN
        ret[t] = bandwidth_of([k \in 1..Len(fresh) |-> fresh[k][1]],
                              [k \in 1..Len(fresh) |-> fresh[k][2]])

\* C7: with at least two retained samples get_bandwidth returns
\* int(sum / max(1, last - first)) and never raises.
C7_DivisorAtLeastOne ==
    \A t \in Returning :
        Len(timestamps) >= 2 =>
            ret[t] = Value(Trunc(SumSeq(bytes_received) * TicksPerSecond,
                                 Max(TicksPerSecond,
                                     Last(timestamps) - timestamps[1])))

\* C8: with fewer than two retained samples get_bandwidth returns the one
\* sample's byte count, and 0 when nothing is retained; it does not raise.
C8_FewerThanTwoSamples ==
    \A t \in Returning :
        /\ Len(timestamps) = 1 => ret[t] = Value(bytes_received[1])
        /\ Len(timestamps) = 0 => ret[t] = Value(0)

\* get_bandwidth returned the byte count of the single retained sample
C8_Witness ==
    \E t \in Returning :
        /\ Len(timestamps) = 1
        /\ bytes_received[1] > 0
        /\ ret[t] = Value(bytes_received[1])

\* C9: when register_received_bytes returns, the retained samples are in
\* ascending timestamp order and are exactly the reported samples of age
\* <= window_size at that call's timestamp, in arrival order.
C9_RetainedExactlyWindow ==
    \A t \in Threads :
        pc[t] = "reg_return" =>
            LET InWindow(s) == current_time[t] - s[1] <= WindowTicks IN
            /\ Len(timestamps) = Len(bytes_received)
            /\ \A k \in 1..(Len(timestamps) - 1) :
                   timestamps[k] <= timestamps[k + 1]
            /\ Retained = SelectSeq(reported, InWindow)

\* a call returns having evicted a sample and kept one aged exactly
\* window_size
C9_Witness ==
    \E t \in Threads :
        /\ pc[t] = "reg_return"
        /\ Len(timestamps) < Len(reported)
        /\ Len(timestamps) >= 2
        /\ current_time[t] - timestamps[1] = WindowTicks

\* C10: at most one thread is inside a with self.lock block, and
\* get_bandwidth reads deques of equal length whose pairs are the most
\* recently reported samples, none half-appended or half-evicted.
C10_MutualExclusion ==
    /\ Cardinality(InCritical) <= 1
    /\ \A t \in Threads :
          pc[t] \in {"gb_compute", "gb_return"} =>
            /\ Len(timestamps) = Len(bytes_received)
            /\ Len(timestamps) <= Len(reported)
            /\ \A k \in 1..Len(timestamps) :
                   Retained[k] =
                       reported[Len(reported) - Len(timestamps) + k]

\* get_bandwidth is about to read while another thread waits at the with
\* statement of register_received_bytes
C10_Witness ==
    \E t, u \in Threads :
        /\ pc[t] = "gb_compute"
        /\ pc[u] = "reg_lock"
        /\ Len(timestamps) >= 2

-----------------------------------------------------------------------------
(* Properties of update_state under concurrent callers (SpecUpdate) *)

\* the threads past line 159, in their transition or their notifications
InSequence ==
    {u \in Updaters : upd[u].pc \notin {"idle", "prev"}}

\* C11: with several threads calling update_state, at most one transition
\* and notification sequence is in progress at a time, no observer runs
\* while another call is at its assignment of the current state, and the
\* level an observer receives is the level its own call's transition
\* produced.
C11_ExclusiveUpdate ==
    /\ Cardinality(InSequence) <= 1
    /\ \A u, v \in Updaters :
          ~(u # v /\ upd[u].pc = "callback" /\ upd[v].pc = "assign")
    /\ \A u \in Updaters :
          upd[u].pc = "callback" => upd[u].passed = upd[u].produced

\* the steps of a get_bandwidth call of thread t
GetBandwidthStep(t) ==
    \/ pc[t] = "idle" /\ pc'[t] = "gb_lock"
    \/ pc[t] = "gb_lock" /\ pc'[t] = "gb_compute"
    \/ pc[t] = "gb_compute" /\ pc'[t] = "gb_return"
    \/ pc[t] = "gb_return" /\ pc'[t] = "idle"

\* C17: get_bandwidth is a pure read of the retained window: no step of it
\* adds, evicts or reorders a sample, and its result is what the retained
\* samples alone give, so calls with no register_received_bytes in between
\* return the same value whatever time passed.
C17_PureRead ==
    [][\A t \in Threads :
          /\ GetBandwidthStep(t) =>
                /\ timestamps' = timestamps
                /\ bytes_received' = bytes_received
          /\ pc'[t] = "gb_return" =>
                ret'[t] = bandwidth_of(timestamps', bytes_received')]_vars

\* get_bandwidth has a result in hand that counts a sample older than the
\* window, which is still retained
C17_Witness ==
    \E t \in Returning :
        /\ Len(timestamps) >= 1
        /\ call_time[t] - timestamps[1] > WindowTicks
        /\ bytes_received[1] >= 1
        /\ ret[t] = bandwidth_of(timestamps, bytes_received)

-----------------------------------------------------------------------------
(* Properties of the ladder (SpecLadder) *)

\* C16: whatever the catalog, the generated categories have the names
\* BANDWIDTH_0 .. BANDWIDTH_(N-1), their values strictly increase with the
\* index (so none repeats and BANDWIDTH_0 is the smallest), and N is at
\* most |resolutions| * 2 * 2.
C16_LadderStrictlyIncreasing ==
    built =>
        LET N == Cardinality(members) IN
        /\ {p[1] : p \in members} = 0..(N - 1)
        /\ \A p, q \in members : p[1] < q[1] => p[2] < q[2]
        /\ N <= Cardinality(catalog) * 2 * 2

\* a ladder of several resolutions in which combinations of equal bandwidth
\* were merged
C16_Witness ==
    /\ built
    /\ Cardinality(catalog) >= 2
    /\ Cardinality(members) >= 5
    /\ Cardinality(members) < Cardinality(catalog) * 2 * 2

-----------------------------------------------------------------------------
(* Properties of the formatter (SpecFormat) *)

UnitSize(unit) ==
    IF unit = "Bps" THEN 1
    ELSE IF unit = "Kbps" THEN Kilo
    ELSE IF unit = "Mbps" THEN Mega
    ELSE Giga

\* C18: the unit is chosen by the strict thresholds 1,000, 1,000,000 and
\* 1,000,000,000, and the number printed is the value divided by the unit
\* size, rounded to the nearest integer: 999 gives 999 Bps, 1000 gives
\* 1 Kbps, 1,500,000 gives 2 Mbps.
C18_FormatUnitsAndRounding ==
    fmt_out # NoOutput =>
        /\ fmt_out.unit =
              IF fmt_in < 1000 THEN "Bps"
              ELSE IF fmt_in < 1000000 THEN "Kbps"
              ELSE IF fmt_in < 1000000000 THEN "Mbps"
              ELSE "Gbps"
        /\ fmt_out.unit = "Bps" => fmt_out.number = fmt_in
        /\ LET size == UnitSize(fmt_out.unit)
               rest == fmt_in - (fmt_out.number - 1) * size
           IN \* |fmt_in - number * size| <= size / 2
              /\ 2 * (rest - size) <= size
              /\ 2 * (size - rest) <= size
        /\ fmt_in = 999 => fmt_out = [number |-> 999, unit |-> "Bps"]
        /\ fmt_in = 1000 => fmt_out = [number |-> 1, unit |-> "Kbps"]
        /\ fmt_in = 1500000 => fmt_out = [number |-> 2, unit |-> "Mbps"]

\* format(1_500_000) returned "2 Mbps"
C18_Witness ==
    /\ fmt_in = 1500000
    /\ fmt_out = [number |-> 2, unit |-> "Mbps"]

-----------------------------------------------------------------------------
(* Properties of the client (SpecClient) *)

\* C19: Client.run can only be called once: whatever happened since,
\* including the end of the first run loop through stop() or a QUIT event,
\* a later call of run() raises RuntimeError and starts nothing, so a
\* Client starts running at most once.
C19_RunOnlyOnce == cl_hist.starts <= 1

\* C20: in src/client/client.py, once a stop() that was called while run()
\* was looping has returned, is_running() is false.
C20_StopStops ==
    (/\ cl_variant = "pkg"
     /\ cl_stop_pc = "returned"
     /\ cl_hist.stop_in_loop) => ~cl_running

=============================================================================
